---- MODULE Spec2Model ----
\* Verification model of armnn_driver's Utils.cpp: the tensor dump writer
\* (DumpTensor) and the 4-D swizzle front door (SwizzleAndroidNn4dTensorToArmNn).
\*
\* Conventions
\*  - A tensor shape is a sequence of dimension sizes; shape[1] is axis 0.
\*  - C++ "unsigned int" values are represented by their two's-complement
\*    residue (0xFFFFFFFF is -1).  Within the bounds below no intermediate
\*    result leaves the 32-bit range, so +, - and * coincide with arithmetic
\*    modulo 2^32; unsigned comparison is ULess.
\*  - Flat offsets and permutation entries are 0-based as in the source.
EXTENDS Integers, Sequences, FiniteSets

\* ---------------------------------------------------------------- bounds
MaxRank == 5
MaxDim == 2
MinSwizzleRank == 3

\* ------------------------------------------------------------- data types
DataTypes == {"Float32", "QuantisedAsymm8", "Signed32", "Other"}
ElementTypeTags == {"Float32", "QuantisedAsymm8", "Signed32"}

\* --------------------------------------------------------------- helpers
RECURSIVE Product(_)
Product(s) == IF s = <<>> THEN 1 ELSE Head(s) * Product(Tail(s))

GetNumElements(shape) == Product(shape)

ULess(a, b) ==
    IF (a >= 0) = (b >= 0) THEN a < b ELSE a >= 0

ShapesOfRank(n, dims) == [1..n -> dims]

DumpShapes == UNION {ShapesOfRank(n, 0..MaxDim) : n \in 0..MaxRank}

\* ------------------------------------------------------------------ state
VARIABLES
    pc,          \* position of the running call
    op,          \* which entry point was called: "none", "dump", "swizzle"
    NDEBUG,      \* build flavour: TRUE when assert() compiles to nothing
    tensor,      \* [shape, dtype] of the tensor argument
    canOpen,     \* whether the dump file can be opened (environment)
    fileOpen,    \* the ofstream holds an open file
    written,     \* tokens written to the dump file, in order
    calls,       \* invocations of the element printer: [b, c, h, w, e]
    shapeReads,  \* shape indices read through GetShape()[i]
    dumpFn,      \* dumpElementFunction
    dims,        \* locals [nd, batch, height, width, channels]
    b, c, h, w, e,
    eStart,      \* value of e when the current channel iteration began
    wrapped,     \* an unsigned subtraction of the rewind steps wrapped around
    mappings,    \* permutation vector argument of the swizzle
    input,       \* source buffer of the swizzle
    output,      \* destination buffer of the swizzle
    outShape     \* shape the swizzle handed to Permute as destination shape

dumpVars == <<canOpen, fileOpen, written, calls, shapeReads, dumpFn, dims,
              b, c, h, w, e, eStart, wrapped>>
swzVars == <<mappings, input, output, outShape>>
vars == <<pc, op, NDEBUG, tensor, dumpVars, swzVars>>

NoDims == [nd |-> 0, batch |-> 0, height |-> 0, width |-> 0, channels |-> 0]

Init ==
    /\ pc = "idle"
    /\ op = "none"
    /\ NDEBUG \in BOOLEAN
    /\ tensor = [shape |-> <<>>, dtype |-> "Float32"]
    /\ canOpen = FALSE
    /\ fileOpen = FALSE
    /\ written = <<>>
    /\ calls = <<>>
    /\ shapeReads = {}
    /\ dumpFn = "nullptr"
    /\ dims = NoDims
    /\ b = 0 /\ c = 0 /\ h = 0 /\ w = 0 /\ e = 0
    /\ eStart = 0
    /\ wrapped = FALSE
    /\ mappings = <<>>
    /\ input = <<>>
    /\ output = <<>>
    /\ outShape = <<>>

\* ------------------------------------------------------------- DumpTensor
Tok(kind, val) == [kind |-> kind, val |-> val]

\* fileStream.open(...): succeeds exactly when the environment allows it.
OpenCreatesMissingDirectory(allowed) == TRUE

OpenSucceeds(allowed) == allowed

\* Entry, open, and the early return on open failure.
DumpTensorOpen ==
    /\ pc = "idle"
    /\ \E shape \in DumpShapes, dtype \in DataTypes, allowed \in BOOLEAN :
         /\ tensor' = [shape |-> shape, dtype |-> dtype]
         /\ canOpen' = allowed
         /\ fileOpen' = OpenSucceeds(allowed)
         /\ pc' = IF OpenSucceeds(allowed) THEN "select" ELSE "returned"
    /\ op' = "dump"
    /\ UNCHANGED <<NDEBUG, written, calls, shapeReads, dumpFn, dims,
                   b, c, h, w, e, eStart, wrapped, swzVars>>

\* switch (tensor.GetDataType()) selecting the element printer.
DumpElementFunctionDefaultsToFloat(dtype) ==
    CASE dtype = "QuantisedAsymm8" -> "DumpTensorElement<uint8_t,uint32_t>"
      [] dtype = "Signed32" -> "DumpTensorElement<int32_t>"
      [] OTHER -> "DumpTensorElement<float>"

DumpElementFunctionFor(dtype) ==
    CASE dtype = "Float32" -> "DumpTensorElement<float>"
      [] dtype = "QuantisedAsymm8" -> "DumpTensorElement<uint8_t,uint32_t>"
      [] dtype = "Signed32" -> "DumpTensorElement<int32_t>"
      [] OTHER -> "nullptr"

SelectDumpElementFunction ==
    /\ pc = "select"
    /\ dumpFn' = DumpElementFunctionFor(tensor.dtype)
    /\ pc' = IF DumpElementFunctionFor(tensor.dtype) # "nullptr"
               THEN "header" ELSE "unsupported"
    /\ UNCHANGED <<op, NDEBUG, tensor, canOpen, fileOpen, written, calls,
                   shapeReads, dims, b, c, h, w, e, eStart, wrapped, swzVars>>

\* GetShape()[i] with a 0-based index i below the rank.
ShapeAt(shape, i) == shape[i + 1]

\* The locals batch, height, width and channels.
DumpDims(shape) ==
    LET nd == Len(shape) IN
    [nd       |-> nd,
     batch    |-> IF nd = 4 THEN ShapeAt(shape, nd - 4) ELSE 1,
     height   |-> IF nd >= 3 THEN ShapeAt(shape, nd - 3)
                  ELSE IF nd >= 2 THEN ShapeAt(shape, nd - 2) ELSE 1,
     width    |-> IF nd >= 3 THEN ShapeAt(shape, nd - 2)
                  ELSE IF nd >= 1 THEN ShapeAt(shape, nd - 1) ELSE 0,
     channels |-> IF nd >= 3 THEN ShapeAt(shape, nd - 1) ELSE 1]

\* Shape indices read while deriving the locals.
DimsShapeReads(shape) ==
    LET nd == Len(shape) IN
    (IF nd = 4 THEN {nd - 4} ELSE {})
    \cup (IF nd >= 3 THEN {nd - 3, nd - 2, nd - 1}
          ELSE (IF nd >= 2 THEN {nd - 2} ELSE {})
               \cup (IF nd >= 1 THEN {nd - 1} ELSE {}))

\* Shape indices read while printing the bracketed shape.
HeaderShapeReads(shape) == {0} \cup (1..(Len(shape) - 1))

\* The dimension list the header prints: entry 0 unconditionally, then entries
\* 1..rank-1.  For a rank-0 tensor entry 0 lies outside the shape and its value
\* is whatever the dimension array holds (garbage).
HeaderDimensions(shape, garbage) ==
    IF Len(shape) = 0 THEN <<garbage>> ELSE [i \in 1..Len(shape) |-> ShapeAt(shape, i - 1)]

MemoryLayoutString(shape) ==
    CASE Len(shape) = 4 -> "(BHWC) "
      [] Len(shape) = 3 -> "(HWC) "
      [] Len(shape) = 2 -> "(HW) "
      [] OTHER -> ""

\* The supported branch up to the start of the batch loop.
DumpHeader ==
    /\ pc = "header"
    /\ dims' = DumpDims(tensor.shape)
    /\ shapeReads' = DimsShapeReads(tensor.shape) \cup HeaderShapeReads(tensor.shape)
    /\ \E garbage \in 0..MaxDim :
         written' = written \o
           << Tok("count", GetNumElements(tensor.shape)),
              Tok("dimensions", <<MemoryLayoutString(tensor.shape),
                                  HeaderDimensions(tensor.shape, garbage)>>) >>
    /\ e' = 0 /\ b' = 0
    /\ pc' = "batchLoop"
    /\ UNCHANGED <<op, NDEBUG, tensor, canOpen, fileOpen, calls, dumpFn,
                   c, h, w, eStart, wrapped, swzVars>>

\* for (e = 0, b = 0; b < batch; ++b) : test, batch label, exit.
BatchLoop ==
    /\ pc = "batchLoop"
    /\ IF ULess(b, dims.batch)
         THEN /\ written' = IF dims.nd >= 4
                              THEN Append(written, Tok("batch", b)) ELSE written
              /\ c' = 0
              /\ pc' = "channelLoop"
         ELSE /\ written' = Append(written, Tok("endl", "dump"))
              /\ c' = c
              /\ pc' = "final"
    /\ UNCHANGED <<op, NDEBUG, tensor, canOpen, fileOpen, calls, shapeReads,
                   dumpFn, dims, b, h, w, e, eStart, wrapped, swzVars>>

\* for (c = 0; c < channels; c++) : test, channel label, exit to next batch.
ChannelLoop ==
    /\ pc = "channelLoop"
    /\ IF ULess(c, dims.channels)
         THEN /\ written' = IF dims.nd >= 3
                              THEN Append(written, Tok("channel", c)) ELSE written
              /\ eStart' = e
              /\ h' = 0
              /\ b' = b
              /\ pc' = "heightLoop"
         ELSE /\ written' = Append(written, Tok("endl", "batch"))
              /\ eStart' = eStart
              /\ h' = h
              /\ b' = b + 1
              /\ pc' = "batchLoop"
    /\ UNCHANGED <<op, NDEBUG, tensor, canOpen, fileOpen, calls, shapeReads,
                   dumpFn, dims, c, w, e, wrapped, swzVars>>

\* The two rewind statements after the height loop.
RewindOffByOne(ee, cc, d) ==
    LET s1 == d.channels
        e1 == ee - s1
        s2 == ((d.height * d.width) - 1) * d.channels
    IN  [e    |-> IF ULess(cc, d.channels) THEN e1 - s2 ELSE e1,
         wrap |-> \/ ULess(ee, s1)
                  \/ ULess(cc, d.channels)
                     /\ (ULess(d.height * d.width, 1) \/ ULess(e1, s2))]

Rewind(ee, cc, d) ==
    LET s1 == d.channels - 1
        e1 == ee - s1
        s2 == ((d.height * d.width) - 1) * d.channels
    IN  [e    |-> IF ULess(cc, d.channels) THEN e1 - s2 ELSE e1,
         wrap |-> \/ ULess(d.channels, 1)
                  \/ ULess(ee, s1)
                  \/ ULess(cc, d.channels)
                     /\ (ULess(d.height * d.width, 1) \/ ULess(e1, s2))]

\* for (h = 0; h < height; h++) : test; on exit the rewind and c++.
HeightLoop ==
    /\ pc = "heightLoop"
    /\ IF ULess(h, dims.height)
         THEN /\ w' = 0
              /\ pc' = "widthLoop"
              /\ UNCHANGED <<e, c, wrapped>>
         ELSE /\ e' = Rewind(e, c, dims).e
              /\ wrapped' = (wrapped \/ Rewind(e, c, dims).wrap)
              /\ c' = c + 1
              /\ w' = w
              /\ pc' = "channelLoop"
    /\ UNCHANGED <<op, NDEBUG, tensor, canOpen, fileOpen, written, calls,
                   shapeReads, dumpFn, dims, b, h, eStart, swzVars>>

\* for (w = 0; w < width; w++, e += channels) : one element, or the row end.
WidthLoop ==
    /\ pc = "widthLoop"
    /\ IF ULess(w, dims.width)
         THEN /\ calls' = Append(calls, [b |-> b, c |-> c, h |-> h, w |-> w, e |-> e])
              /\ written' = Append(written, Tok("element", e))
              /\ w' = w + 1
              /\ e' = e + dims.channels
              /\ h' = h
              /\ pc' = "widthLoop"
         ELSE /\ written' = Append(written, Tok("endl", "row"))
              /\ h' = h + 1
              /\ pc' = "heightLoop"
              /\ UNCHANGED <<calls, w, e>>
    /\ UNCHANGED <<op, NDEBUG, tensor, canOpen, fileOpen, shapeReads,
                   dumpFn, dims, b, c, eStart, wrapped, swzVars>>

\* The else branch: one diagnostic line with the numeric type code.
DumpUnsupported ==
    /\ pc = "unsupported"
    /\ written' = Append(written, Tok("unsupported", tensor.dtype))
    /\ pc' = "final"
    /\ UNCHANGED <<op, NDEBUG, tensor, canOpen, fileOpen, calls, shapeReads,
                   dumpFn, dims, b, c, h, w, e, eStart, wrapped, swzVars>>

\* The final good() check and return; the ofstream is destroyed on return.
DumpTensorReturn ==
    /\ pc = "final"
    /\ fileOpen' = FALSE
    /\ pc' = "returned"
    /\ UNCHANGED <<op, NDEBUG, tensor, canOpen, written, calls, shapeReads,
                   dumpFn, dims, b, c, h, w, e, eStart, wrapped, swzVars>>

DumpNext ==
    \/ DumpTensorOpen
    \/ SelectDumpElementFunction
    \/ DumpHeader
    \/ BatchLoop
    \/ ChannelLoop
    \/ HeightLoop
    \/ WidthLoop
    \/ DumpUnsupported
    \/ DumpTensorReturn

\* ---------------------------------------------------- permutation engine
\* Permutation vectors over rank n: bijections of 0..n-1, as sequences.
PermutationVectors(n) ==
    {p \in [1..n -> 0..(n - 1)] : \A i, j \in 1..n : p[i] = p[j] => i = j}

g_DontPermute == <<>>

\* inverse(P): the vector Q with Q[P[i]] = i.
Inverse(p) ==
    [j \in 1..Len(p) |-> (CHOOSE i \in 1..Len(p) : p[i] = j - 1) - 1]

\* Row-major flat offset of multi-index idx in a tensor of the given shape.
RECURSIVE Flatten(_, _)
Flatten(shape, idx) ==
    IF shape = <<>> THEN 0
    ELSE Head(idx) * Product(Tail(shape)) + Flatten(Tail(shape), Tail(idx))

\* The multi-index of flat offset k.
Unflatten(shape, k) ==
    [i \in 1..Len(shape) |->
        (k \div Product(SubSeq(shape, i + 1, Len(shape)))) % shape[i]]

\* armnnUtils::Permuted: destinationShape[i] = sourceShape[P[i]];
\* the empty vector leaves the shape as it is.
Permuted(srcShape, p) ==
    IF p = <<>> THEN srcShape
    ELSE [i \in 1..Len(p) |-> srcShape[p[i] + 1]]

\* armnnUtils::Permute(dstShape, P, src, dst): the element at source
\* multi-index s lands at destination multi-index d with d[i] = s[P[i]];
\* the empty vector copies the data unchanged.
Permute(dstShape, p, src) ==
    IF p = <<>> THEN src
    ELSE LET q == Inverse(p)
             srcShape == Permuted(dstShape, q)
         IN  [k \in 1..Product(dstShape) |->
                LET d == Unflatten(dstShape, k - 1)
                    s == [j \in 1..Len(p) |-> d[q[j] + 1]]
                IN  src[Flatten(srcShape, s) + 1]]

\* The typed template: casts the buffers and calls Permute with the
\* permuted input shape as destination shape.
SwizzleTemplateUnpermutedShape(inTensorShape, in, p) ==
    [shape |-> inTensorShape,
     data  |-> Permute(inTensorShape, p, in)]

SwizzleTemplate(inTensorShape, in, p) ==
    [shape |-> Permuted(inTensorShape, p),
     data  |-> Permute(Permuted(inTensorShape, p), p, in)]

\* -------------------------------------------- SwizzleAndroidNn4dTensorToArmNn
RequiredRank == 4

SwizzleShapes ==
    UNION {ShapesOfRank(n, 1..MaxDim) : n \in MinSwizzleRank..RequiredRank}

DataPatterns == {"ramp", "pairs"}

\* Contents of the caller's source buffer: n elements.
InputData(n, pattern) ==
    [i \in 1..n |-> IF pattern = "ramp" THEN i - 1 ELSE (i - 1) \div 2]

\* The caller's destination buffer before the call; Unwritten stands for
\* whatever the memory held.
Unwritten == -1
FreshOutput(n) == [i \in 1..n |-> Unwritten]

\* Entry and assert(tensor.GetNumDimensions() == 4U).
SwizzleEnter ==
    /\ pc = "idle"
    /\ \E shape \in SwizzleShapes, dtype \in DataTypes, pattern \in DataPatterns :
         /\ tensor' = [shape |-> shape, dtype |-> dtype]
         /\ \E p \in PermutationVectors(Len(shape)) \cup {g_DontPermute} :
              mappings' = p
         /\ input' = InputData(Product(shape), pattern)
         /\ output' = FreshOutput(Product(shape))
         /\ pc' = IF Len(shape) # RequiredRank /\ ~NDEBUG THEN "aborted" ELSE "switch"
    /\ op' = "swizzle"
    /\ outShape' = <<>>
    /\ UNCHANGED <<NDEBUG, dumpVars>>

\* The element types the switch routes to the template.
SwizzleHandles(dtype) == dtype \in {"Float32", "QuantisedAsymm8"}

\* switch (tensor.GetDataType()): the two typed cases, and the default
\* ALOGW + assert(0), which returns normally when assert is compiled out.
SwizzleSwitch ==
    /\ pc = "switch"
    /\ IF SwizzleHandles(tensor.dtype)
         THEN /\ output' = SwizzleTemplate(tensor.shape, input, mappings).data
              /\ outShape' = SwizzleTemplate(tensor.shape, input, mappings).shape
              /\ pc' = "returned"
         ELSE /\ UNCHANGED <<output, outShape>>
              /\ pc' = IF NDEBUG THEN "returned" ELSE "aborted"
    /\ UNCHANGED <<op, NDEBUG, tensor, mappings, input, dumpVars>>

SwizzleNext ==
    \/ SwizzleEnter
    \/ SwizzleSwitch

Next == DumpNext \/ SwizzleNext
Spec == Init /\ [][Next]_vars

\* ================================================================ claims
Range(s) == {s[i] : i \in DOMAIN s}
BagOf(s) == [v \in Range(s) |-> Cardinality({i \in DOMAIN s : s[i] = v})]

DumpSupported == op = "dump" /\ tensor.dtype \in ElementTypeTags
AllPositive(shape) == \A i \in DOMAIN shape : shape[i] > 0
SwizzleFinished == op = "swizzle" /\ pc \in {"returned", "aborted"}

\* C1: for a tensor of rank 2, 3 or 4 (batch of 2 or more included) every
\* element printer call at loop position (b, c, h, w) receives the offset
\* ((b*height + h)*width + w)*channels + c.
C1_OffsetIsClosedForm ==
    (DumpSupported /\ dims.nd \in {2, 3, 4}) =>
        \A i \in DOMAIN calls :
            calls[i].e = ((calls[i].b * dims.height + calls[i].h) * dims.width
                          + calls[i].w) * dims.channels + calls[i].c

\* C2: for a tensor of rank 1 or more a finished dump has passed each flat
\* offset 0..product(shape)-1 to the element printer exactly once, so the
\* number of values written equals the element count of the header.
C2_EveryElementOnce ==
    (DumpSupported /\ pc = "returned" /\ canOpen /\ Len(tensor.shape) >= 1
       /\ AllPositive(tensor.shape)) =>
        /\ Len(calls) = written[1].val
        /\ Len(calls) = Product(tensor.shape)
        /\ {calls[i].e : i \in DOMAIN calls} = 0..(Product(tensor.shape) - 1)

C4_MultisetPreserved ==
    (SwizzleFinished /\ Len(tensor.shape) = RequiredRank
       /\ tensor.dtype \in ElementTypeTags) =>
        /\ pc = "returned"
        /\ BagOf(output) = BagOf(input)

\* C5: with the empty permutation vector the swizzle of a rank-4 tensor
\* returns with the input's shape and the input's elements in the same order.
C5_EmptyIsIdentity ==
    (SwizzleFinished /\ Len(tensor.shape) = RequiredRank
       /\ tensor.dtype \in ElementTypeTags /\ mappings = g_DontPermute) =>
        /\ pc = "returned"
        /\ outShape = tensor.shape
        /\ output = input

\* C6: a swizzle called with an element type it does not handle never
\* returns normally, in either build, and leaves the destination unwritten.
C6_UnhandledTypeNotMasked ==
    (SwizzleFinished /\ Len(tensor.shape) = RequiredRank
       /\ tensor.dtype \notin {"Float32", "QuantisedAsymm8"}) =>
        /\ pc # "returned"
        /\ output = FreshOutput(Len(input))

\* C7: a dump of a tensor with an unsupported element type, the file having
\* opened, writes exactly one diagnostic line naming the type code, no header
\* and no element, and returns normally.
C7_UnsupportedWritesOneLine ==
    (op = "dump" /\ canOpen /\ tensor.dtype \notin ElementTypeTags) =>
        /\ pc \in {"select", "unsupported", "final", "returned"}
        /\ calls = <<>>
        /\ \A i \in DOMAIN written : written[i].kind = "unsupported"
        /\ pc \in {"final", "returned"} =>
              /\ Len(written) = 1
              /\ written[1].val = tensor.dtype
        /\ pc \in {"select", "unsupported"} => written = <<>>

C7_Witness ==
    /\ op = "dump" /\ pc = "returned" /\ canOpen
    /\ tensor.dtype = "Other"
    /\ Len(tensor.shape) = 4
    /\ Product(tensor.shape) > 1
    /\ Len(written) = 1

\* C8: when the dump file cannot be opened the dump returns at once having
\* written nothing, and no exit path of the dump leaves the file open.
C8_OpenFailureWritesNothing ==
    /\ (op = "dump" /\ ~canOpen) =>
          /\ pc = "returned"
          /\ written = <<>>
          /\ calls = <<>>
          /\ ~fileOpen
    /\ (op = "dump" /\ pc = "returned") => ~fileOpen

C8_Witness ==
    /\ op = "dump" /\ pc = "returned" /\ ~canOpen
    /\ tensor.dtype = "Float32"
    /\ Product(tensor.shape) > 1
    /\ written = <<>>

\* C9: every shape index the dump reads is below the tensor's rank, for
\* every rank, rank 0 included.
C9_ShapeReadsBelowRank ==
    DumpSupported => \A i \in shapeReads : i < Len(tensor.shape)

\* The counter property of C10 for the running dump.
CounterWellBehaved ==
    /\ \A i \in DOMAIN calls :
          calls[i].e >= 0 /\ calls[i].e < Product(tensor.shape)
    /\ (pc = "channelLoop" /\ c > 0) => e = eStart + 1
    /\ ~wrapped

\* The offsets the counter takes stay inside the range of a signed 32-bit value.
FitsCounter(shape) ==
    LET d == DumpDims(shape)
    IN  (d.batch + d.height * d.width) * d.channels <= 2147483647

====
